---- MODULE Spec2Model ----
(***************************************************************************)
(* Model of src/data/_schema.py: SchemaFieldType, SchemaField and Schema.  *)
(*                                                                         *)
(* The module is Python 2 code: `map` returns a list (Schema.parse hands   *)
(* the result of `map` to Schema.__init__, which takes its `len`), so      *)
(* every `map` below is an eager, ordered list construction.               *)
(*                                                                         *)
(* Python values are modelled as records of one shape, [t, s, n]:          *)
(*   str  -> t = "str",  s = the text                                      *)
(*   int  -> t = "int",  n = the number                                    *)
(*   bool -> t = "bool", n = 1 (True) or 0 (False)                         *)
(*   None -> t = "None"                                                    *)
(* A Schema object is [id, _fields, _field_map]; id is the object's        *)
(* identity (0 = no object).  The caller holds one Schema in `s`, and      *)
(* `ret` is the outcome of the last call.                                  *)
(***************************************************************************)
EXTENDS Integers, Sequences, FiniteSets, TLC

VARIABLES s, ret

vars == <<s, ret>>

\* The largest number of fields / arguments / records the inputs are drawn with.
MaxFields == 2

-----------------------------------------------------------------------------
(* Python values *)

PyStr(x) == [t |-> "str", s |-> x, n |-> 0]

PyInt(i) == [t |-> "int", s |-> "", n |-> i]

PyBool(b) == [t |-> "bool", s |-> "", n |-> IF b THEN 1 ELSE 0]

PyNone == [t |-> "None", s |-> "", n |-> 0]

\* Two dict keys are the same key when they are equal and hash alike: in Python
\* True == 1 and False == 0, so a bool key is the int key of the same number.
DictKey(v) == IF v.t = "bool" THEN PyInt(v.n) ELSE v

-----------------------------------------------------------------------------
(* SchemaFieldType and SchemaField *)

SchemaFieldType == {"integer", "real", "discrete"}

SchemaField(name, type, length) == [name |-> name, type |-> type, length |-> length]

numeric(f) == f.type \in {"integer", "real"}

-----------------------------------------------------------------------------
(* Inputs *)

\* Field names: a plain word, and a word YAML would read as an int if it were
\* written unquoted.
Names == {"a", "1"}

Lengths == {0, 1, 2}

Fields == {SchemaField(PyStr(nm), ty, PyInt(ln)) : nm \in Names, ty \in SchemaFieldType, ln \in Lengths}

\* The sequences of k fields, k in 0..MaxFields.
FieldSeqs(k) == [1..k -> Fields]

-----------------------------------------------------------------------------
(* Outcomes of a call *)

Return(kind, val) == [status |-> "return", kind |-> kind, val |-> val]

Raise(exc) == [status |-> "raise", kind |-> exc, val |-> PyNone]

NoSchema == [id |-> 0, _fields |-> << >>, _field_map |-> << >>]

-----------------------------------------------------------------------------
(* Schema.__init__ *)

RECURSIVE DictOfFirst(_)
\* Fault: a dict that keeps the first value of a key (setdefault).
DictOfFirst(fields) ==
  IF fields = << >> THEN << >>
  ELSE LET n == Len(fields)
           front == DictOfFirst(SubSeq(fields, 1, n - 1))
           last == fields[n]
           k == DictKey(last.name)
       IN [x \in (DOMAIN front) \cup {k} |-> IF x \in DOMAIN front THEN front[x] ELSE last]

RECURSIVE DictOf(_)
\* dict(pairs): the pairs are inserted in order, so a later pair with the same key
\* replaces the value of an earlier one.
DictOf(fields) ==
  IF fields = << >> THEN << >>
  ELSE LET n == Len(fields)
           front == DictOf(SubSeq(fields, 1, n - 1))
           last == fields[n]
           k == DictKey(last.name)
       IN [x \in (DOMAIN front) \cup {k} |-> IF x = k THEN last ELSE front[x]]

\* Fault: a constructor without the check for an empty sequence.
Schema__init__Unchecked(fields, id) ==
  Return("Schema", [id |-> id, _fields |-> fields, _field_map |-> DictOf(fields)])

Schema__init__(fields, id) ==
  IF Len(fields) = 0 THEN Raise("ValueError")
  ELSE Return("Schema", [id |-> id, _fields |-> fields, _field_map |-> DictOf(fields)])

-----------------------------------------------------------------------------
(* Schema.create *)

\* An argument of create(*args) is a SchemaField or a list of SchemaFields.
FieldArg(f) == [kind |-> "field", field |-> f, items |-> << >>]

ListArg(fs) == [kind |-> "list", field |-> PyNone, items |-> fs]

\* list(args) of a call whose arguments are all fields.
ListOfArgs(args) == [i \in 1..Len(args) |-> args[i].field]

\* Fault: the variadic branch keeps the first argument only.
Schema_createFirstOnly(args, id) ==
  IF Len(args) = 0 THEN Raise("ValueError")
  ELSE IF args[1].kind = "list" THEN Schema__init__(args[1].items, id)
  ELSE Schema__init__(<<args[1].field>>, id)

Schema_create(args, id) ==
  IF Len(args) = 0 THEN Raise("ValueError")
  ELSE IF args[1].kind = "list" THEN Schema__init__(args[1].items, id)
  ELSE Schema__init__(ListOfArgs(args), id)

\* create(f1, ..., fn)
VariadicCalls(k) == {[i \in 1..k |-> FieldArg(fs[i])] : fs \in FieldSeqs(k)}

\* create([f1, ..., fn])
ListCalls(k) == {<<ListArg(fs)>> : fs \in FieldSeqs(k)}

\* create([f1, ..., fk], fk+1, ..., fn): a list followed by further fields.
MixedCalls(n) ==
  {[i \in 1..(1 + n - k) |-> IF i = 1 THEN ListArg([j \in 1..k |-> fs[j]]) ELSE FieldArg(fs[k + i - 1])] :
     fs \in FieldSeqs(n), k \in 0..(n - 1)}

-----------------------------------------------------------------------------
(* YAML: yaml.safe_dump and yaml.safe_load on the documents Schema uses.     *)
(* A document is the sequence under its top-level key `fields`; each entry   *)
(* is a block mapping from a key to a scalar as it is written in the text:   *)
(* its characters and whether it is written plain or in quotes.              *)

Scalar(style, text) == [style |-> style, text |-> text]

\* Decimal digits, as str(int) writes them and int(text) reads them.
DecimalText == <<"0", "1", "2", "3", "4", "5", "6", "7", "8", "9">>

YamlTrue == {"yes", "Yes", "YES", "true", "True", "TRUE", "on", "On", "ON"}

YamlFalse == {"no", "No", "NO", "false", "False", "FALSE", "off", "Off", "OFF"}

YamlNull == {"~", "null", "Null", "NULL", ""}

IsIntText(text) == \E i \in DOMAIN DecimalText : DecimalText[i] = text

IntOfText(text) == (CHOOSE i \in DOMAIN DecimalText : DecimalText[i] = text) - 1

\* The implicit resolver: the tag a plain scalar gets from its text.
ResolvePlain(text) ==
  IF text \in YamlTrue \cup YamlFalse THEN "bool"
  ELSE IF IsIntText(text) THEN "int"
  ELSE IF text \in YamlNull THEN "None"
  ELSE "str"

\* Fault: a dump that writes every str plain.
RepresentUnquoted(v) ==
  IF v.t = "str" THEN Scalar("plain", v.s)
  ELSE IF v.t = "int" THEN Scalar("plain", DecimalText[v.n + 1])
  ELSE IF v.t = "bool" THEN Scalar("plain", IF v.n = 1 THEN "true" ELSE "false")
  ELSE Scalar("plain", "null")

\* safe_dump of a scalar: a str is written plain only if a plain scalar of that text
\* resolves to a str again, and in quotes otherwise; int, bool, None are written plain.
Represent(v) ==
  IF v.t = "str" THEN Scalar(IF ResolvePlain(v.s) = "str" THEN "plain" ELSE "quoted", v.s)
  ELSE IF v.t = "int" THEN Scalar("plain", DecimalText[v.n + 1])
  ELSE IF v.t = "bool" THEN Scalar("plain", IF v.n = 1 THEN "true" ELSE "false")
  ELSE Scalar("plain", "null")

\* safe_load of a scalar: a quoted scalar is a str, a plain one is what its text resolves to.
ConstructScalar(sc) ==
  IF sc.style = "quoted" THEN PyStr(sc.text)
  ELSE LET tag == ResolvePlain(sc.text)
       IN IF tag = "bool" THEN PyBool(sc.text \in YamlTrue)
          ELSE IF tag = "int" THEN PyInt(IntOfText(sc.text))
          ELSE IF tag = "None" THEN PyNone
          ELSE PyStr(sc.text)

\* safe_dump of {'fields': [{'name': .., 'type': .., 'length': ..}, ...]}
safe_dump(fields) == [i \in 1..Len(fields) |-> [k \in DOMAIN fields[i] |-> Represent(fields[i][k])]]

\* safe_load: the list under `fields`, each entry a dict of the constructed values.
safe_load(doc) == [i \in 1..Len(doc) |-> [k \in DOMAIN doc[i] |-> ConstructScalar(doc[i][k])]]

-----------------------------------------------------------------------------
(* Schema.format and Schema.parse *)

Schema_format(self) ==
  LET fields == [i \in 1..Len(self._fields) |->
                   [name |-> self._fields[i].name,
                    type |-> PyStr(self._fields[i].type),
                    length |-> self._fields[i].length]]
  IN Return("text", safe_dump(fields))

\* Fault: any str is taken for the name of a type.
IsTypeNameAny(x) == x.t = "str"

\* SchemaFieldType[x] finds a member by its name.
IsTypeName(x) == x.t = "str" /\ x.s \in SchemaFieldType

\* Fault: f.get('length', 0)
GetLengthZero(f) == IF "length" \in DOMAIN f THEN f["length"] ELSE PyInt(0)

\* f.get('length', 1)
GetLength(f) == IF "length" \in DOMAIN f THEN f["length"] ELSE PyInt(1)

\* The lambda of parse raises KeyError on a record without `name`, without `type`,
\* or whose `type` names no SchemaFieldType.
RecordFails(f) ==
  \/ "name" \notin DOMAIN f
  \/ "type" \notin DOMAIN f
  \/ ~IsTypeName(f["type"])

ParseField(f) == SchemaField(f["name"], f["type"].s, GetLength(f))

\* Fault: a parse that has no shortcut for a Schema and builds a new one from its fields.
Schema_parseCopy(spec, id) ==
  IF spec.kind = "Schema" THEN Schema__init__(spec.val._fields, id)
  ELSE LET loaded == safe_load(spec.val)
       IN IF \E i \in 1..Len(loaded) : RecordFails(loaded[i]) THEN Raise("KeyError")
          ELSE Schema__init__([i \in 1..Len(loaded) |-> ParseField(loaded[i])], id)

\* spec is [kind |-> "Schema", val |-> a Schema] or [kind |-> "text", val |-> a document].
Schema_parse(spec, id) ==
  IF spec.kind = "Schema" THEN Return("Schema", spec.val)
  ELSE LET loaded == safe_load(spec.val)
       IN IF \E i \in 1..Len(loaded) : RecordFails(loaded[i]) THEN Raise("KeyError")
          ELSE Schema__init__([i \in 1..Len(loaded) |-> ParseField(loaded[i])], id)

\* Specifications written by hand: records with a known or unknown type, with and
\* without `length`, without `name`, without `type`.
NameScalars == {Scalar("plain", "a"), Scalar("plain", "1")}

TypeScalars == {Scalar("plain", ty) : ty \in SchemaFieldType} \cup {Scalar("plain", "string")}

LengthScalars == {Scalar("plain", "0"), Scalar("plain", "2")}

DocRecords ==
  {[name |-> nm, type |-> ty, length |-> ln] : nm \in NameScalars, ty \in TypeScalars, ln \in LengthScalars}
  \cup {[name |-> nm, type |-> ty] : nm \in NameScalars, ty \in TypeScalars}
  \cup {[name |-> Scalar("plain", "a"), length |-> Scalar("plain", "2")],
        [type |-> Scalar("plain", "real"), length |-> Scalar("plain", "2")]}

\* The documents of k records, k in 0..MaxFields.
Docs(k) == [1..k -> DocRecords]

-----------------------------------------------------------------------------
(* Schema.fields, Schema.__getitem__, Schema.__iter__, Schema.__len__ *)

\* Fault: the names taken from the end of the list backwards.
Schema_fieldsReversed(self) ==
  Return("list", [i \in 1..Len(self._fields) |-> self._fields[Len(self._fields) + 1 - i].name])

Schema_fields(self) == Return("list", [i \in 1..Len(self._fields) |-> self._fields[i].name])

\* self._fields[index]: a Python list counts a negative index from the end and
\* raises IndexError outside [-len, len).
ListItem(list, i) ==
  IF 0 <= i /\ i < Len(list) THEN Return("SchemaField", list[i + 1])
  ELSE IF -Len(list) <= i /\ i < 0 THEN Return("SchemaField", list[Len(list) + i + 1])
  ELSE Raise("IndexError")

\* self._field_map.get(index, None)
DictGet(dict, key) ==
  IF DictKey(key) \in DOMAIN dict THEN Return("SchemaField", dict[DictKey(key)])
  ELSE Return("None", PyNone)

Schema__getitem__(self, index) ==
  IF index.t = "int"
  THEN IF Len(self._fields) > index.n THEN ListItem(self._fields, index.n)
       ELSE Return("None", PyNone)
  ELSE DictGet(self._field_map, index)

\* The generator of __iter__, run to its end: the fields it yields, in order.
Schema__iter__(self) == Return("generator", self._fields)

Schema__len__(self) == Return("int", Len(self._fields))

Indices ==
  {PyInt(i) : i \in -(MaxFields + 1)..(MaxFields + 1)} \cup {PyStr(nm) : nm \in Names \cup {"zz"}}

-----------------------------------------------------------------------------
(* The caller: its first call builds a Schema, which it then reads.  No error *)
(* is caught: a constructing call that raises ends the caller.               *)

Call(op, arg, out) == [op |-> op, arg |-> arg, out |-> out]

\* What the caller holds after s = <constructing call>.
Bound(out) == IF out.status = "return" THEN out.val ELSE NoSchema

HoldsSchema(r) == r.out.status = "return" /\ r.out.kind = "Schema"

\* The identity of the next object: none that a live Schema has.
NewId == CHOOSE i \in 1..3 : i # s.id /\ ~(HoldsSchema(ret) /\ ret.out.val.id = i)

Started == ret.op # "none"

Init ==
  /\ s = NoSchema
  /\ ret = Call("none", PyNone, Return("None", PyNone))

\* s = Schema(fields)
Construct ==
  /\ ~Started
  /\ \E k \in 0..MaxFields : \E fs \in FieldSeqs(k) :
       LET out == Schema__init__(fs, NewId)
       IN /\ s' = Bound(out)
          /\ ret' = Call("Schema", fs, out)

\* s = Schema.create(*args)
Create ==
  /\ ~Started
  /\ \E k \in 0..MaxFields : \E args \in VariadicCalls(k) \cup ListCalls(k) \cup MixedCalls(k) :
       LET out == Schema_create(args, NewId)
       IN /\ s' = Bound(out)
          /\ ret' = Call("create", args, out)

\* s = Schema.parse(text)
ParseText ==
  /\ ~Started
  /\ \E k \in 0..MaxFields : \E doc \in Docs(k) :
       LET out == Schema_parse([kind |-> "text", val |-> doc], NewId)
       IN /\ s' = Bound(out)
          /\ ret' = Call("parse", [kind |-> "text", val |-> doc], out)

\* s.format()
Format ==
  /\ s.id # 0
  /\ ret' = Call("format", PyNone, Schema_format(s))
  /\ UNCHANGED s

\* Schema.parse(s)
ParseSelf ==
  /\ s.id # 0
  /\ ret' = Call("parse", [kind |-> "Schema", val |-> s], Schema_parse([kind |-> "Schema", val |-> s], NewId))
  /\ UNCHANGED s

\* Schema.parse(r), r the text or the Schema the last call returned.
ParseResult ==
  /\ s.id # 0
  /\ ret.out.status = "return"
  /\ ret.out.kind \in {"text", "Schema"}
  /\ LET spec == [kind |-> ret.out.kind, val |-> ret.out.val]
     IN ret' = Call("parse", spec, Schema_parse(spec, NewId))
  /\ UNCHANGED s

\* s[index]
GetItem ==
  /\ s.id # 0
  /\ \E index \in Indices : ret' = Call("getitem", index, Schema__getitem__(s, index))
  /\ UNCHANGED s

\* s.fields
GetFields ==
  /\ s.id # 0
  /\ ret' = Call("fields", PyNone, Schema_fields(s))
  /\ UNCHANGED s

\* Fault: an iteration that uses the field list up.
IterateConsuming ==
  /\ s.id # 0
  /\ ret' = Call("iter", PyNone, Schema__iter__(s))
  /\ s' = [s EXCEPT !._fields = << >>]

\* list(s)
Iterate ==
  /\ s.id # 0
  /\ ret' = Call("iter", PyNone, Schema__iter__(s))
  /\ UNCHANGED s

\* len(s)
Length ==
  /\ s.id # 0
  /\ ret' = Call("len", PyNone, Schema__len__(s))
  /\ UNCHANGED s

Next ==
  \/ Construct
  \/ Create
  \/ ParseText
  \/ Format
  \/ ParseSelf
  \/ ParseResult
  \/ GetItem
  \/ GetFields
  \/ Iterate
  \/ Length

Spec == Init /\ [][Next]_vars

-----------------------------------------------------------------------------
(* Properties *)

Returned(r) == r.out.status = "return"

Raised(r, exc) == r.out.status = "raise" /\ r.out.kind = exc

IsNone(r) == Returned(r) /\ r.out.kind = "None"

IsField(r, f) == Returned(r) /\ r.out.kind = "SchemaField" /\ r.out.val = f

ParsedText(r) == r.op = "parse" /\ r.arg.kind = "text"

\* The ordered (name, type, length) triples of a Schema.
Triples(x) == [i \in 1..Len(x._fields) |-> <<x._fields[i].name, x._fields[i].type, x._fields[i].length>>]

\* The positions of the fields of x named nm.
Named(x, nm) == {i \in 1..Len(x._fields) : x._fields[i].name = nm}

Max(S) == CHOOSE i \in S : \A j \in S : j <= i

\* C1: for every Schema s and every integer i, s[i] returns the field at position i
\* when 0 <= i < len(s), and returns None (never raises) for every other integer i,
\* negative i included.
C1_IntegerLookupTotal ==
  (ret.op = "getitem" /\ ret.arg.t = "int") =>
    IF 0 <= ret.arg.n /\ ret.arg.n < Len(s._fields)
    THEN IsField(ret, s._fields[ret.arg.n + 1])
    ELSE IsNone(ret)

\* C2: round trip: Schema.parse(s.format()) succeeds and yields a Schema whose ordered
\* (name, type, length) triples are those of s.
C2_RoundTrip ==
  (s.id # 0 /\ ParsedText(ret) /\ ret.arg.val = Schema_format(s).val) =>
    /\ Returned(ret)
    /\ ret.out.kind = "Schema"
    /\ Triples(ret.out.val) = Triples(s)

\* C2 witness: the text of s.format() was parsed into a new Schema, s having two fields,
\* one of them named "1" with length 0.
C2_Witness ==
  /\ s.id # 0
  /\ ParsedText(ret)
  /\ ret.arg.val = Schema_format(s).val
  /\ Returned(ret)
  /\ ret.out.val.id # s.id
  /\ Len(s._fields) = 2
  /\ \E i \in 1..2 : s._fields[i].name = PyStr("1") /\ s._fields[i].length = PyInt(0)
  /\ \E i \in 1..2 : s._fields[i].name = PyStr("a") /\ s._fields[i].type = "discrete"

\* A call that hands the constructor an empty sequence of fields.
EmptyCall(r) ==
  \/ r.op = "Schema" /\ Len(r.arg) = 0
  \/ r.op = "create" /\ Len(r.arg) = 0
  \/ r.op = "create" /\ Len(r.arg) > 0 /\ r.arg[1].kind = "list" /\ Len(r.arg[1].items) = 0
  \/ ParsedText(r) /\ Len(r.arg.val) = 0

\* C3: Schema(fields), Schema.create and Schema.parse raise ValueError when the
\* sequence of fields is empty (create also when called with no argument), so every
\* Schema has at least one field.
C3_NoEmptySchema ==
  /\ EmptyCall(ret) => Raised(ret, "ValueError") /\ s.id = 0
  /\ s.id # 0 => Len(s._fields) >= 1
  /\ (Returned(ret) /\ ret.out.kind = "Schema") => Len(ret.out.val._fields) >= 1

\* C3 witness: Schema.create([]) raised ValueError.
C3_Witness ==
  /\ ret.op = "create"
  /\ Len(ret.arg) = 1
  /\ ret.arg[1].kind = "list"
  /\ Len(ret.arg[1].items) = 0
  /\ Raised(ret, "ValueError")

\* C4: for every Schema s and string n, s[n] returns None when no field of s is named
\* n, and otherwise the last field of s named n; the constructor keeps every duplicate
\* in the field list, so positional lookup, iteration and len still count it.
C4_NameLookup ==
  /\ (ret.op = "getitem" /\ ret.arg.t = "str") =>
       IF Named(s, ret.arg) = {} THEN IsNone(ret)
       ELSE IsField(ret, s._fields[Max(Named(s, ret.arg))])
  /\ (ret.op = "Schema" /\ Returned(ret)) => s._fields = ret.arg
  /\ (ret.op = "len") => ret.out.val = Len(s._fields)
  /\ (ret.op = "iter") => ret.out.val = s._fields
  /\ (ret.op = "getitem" /\ ret.arg.t = "int" /\ 0 <= ret.arg.n /\ ret.arg.n < Len(s._fields)) =>
       IsField(ret, s._fields[ret.arg.n + 1])

\* C4 witness: s has two fields named "a" that differ, and s["a"] returned the second.
C4_Witness ==
  /\ ret.op = "getitem"
  /\ ret.arg = PyStr("a")
  /\ Named(s, PyStr("a")) = {1, 2}
  /\ s._fields[1] # s._fields[2]
  /\ IsField(ret, s._fields[2])

\* A record of a written specification whose `type` is not the name of a field type.
UnknownType(rec) == "type" \in DOMAIN rec /\ rec["type"].text \notin SchemaFieldType

\* C5: Schema.parse of a specification with a record, at any position, whose type is
\* none of integer, real, discrete raises and yields no Schema.
C5_UnknownTypeFails ==
  (ParsedText(ret) /\ \E i \in 1..Len(ret.arg.val) : UnknownType(ret.arg.val[i])) =>
    /\ ret.out.status = "raise"
    /\ s.id = 0

\* C5 witness: parse raised on a specification whose first record is valid and whose
\* last record has the type `string`.
C5_Witness ==
  /\ ParsedText(ret)
  /\ Len(ret.arg.val) = 2
  /\ ~UnknownType(ret.arg.val[1])
  /\ DOMAIN ret.arg.val[1] = {"name", "type", "length"}
  /\ UnknownType(ret.arg.val[2])
  /\ ret.out.status = "raise"

\* C6: the Schema built from a sequence F of fields holds F in order, and its positional
\* views agree with it: s.fields is the names in order, iteration yields the fields in
\* order, len(s) is their number, and s[i] is the i-th field iterated for 0 <= i < len(s).
C6_PositionalViews ==
  /\ (ret.op = "Schema" /\ Returned(ret)) => s._fields = ret.arg /\ ret.out.val = s
  /\ (ret.op = "fields") =>
       /\ Returned(ret)
       /\ Len(ret.out.val) = Len(s._fields)
       /\ \A i \in 1..Len(s._fields) : ret.out.val[i] = s._fields[i].name
  /\ (ret.op = "iter") => Returned(ret) /\ ret.out.val = s._fields
  /\ (ret.op = "len") => Returned(ret) /\ ret.out.val = Len(s._fields)
  /\ (ret.op = "getitem" /\ ret.arg.t = "int" /\ 0 <= ret.arg.n /\ ret.arg.n < Len(s._fields)) =>
       IsField(ret, Schema__iter__(s).val[ret.arg.n + 1])

\* C6 witness: s was built from two fields with different names and s[1] returned the
\* second of them.
C6_Witness ==
  /\ ret.op = "getitem"
  /\ ret.arg = PyInt(1)
  /\ Len(s._fields) = 2
  /\ s._fields[1].name # s._fields[2].name
  /\ IsField(ret, s._fields[2])

\* C7: no read operation (s.fields, iteration, s[index], s[name], len(s), s.format(),
\* Schema.parse(s)) changes the field list or the name map of s, and each run of
\* s.fields or of iteration yields the full sequence again, whatever ran before.
C7_Immutable ==
  [][/\ s.id # 0 => s' = s
     /\ (s.id # 0 /\ ret'.op = "iter") => ret'.out.val = s._fields
     /\ (s.id # 0 /\ ret'.op = "fields") => ret'.out.val = Schema_fields(s).val]_vars

\* C7 witness: iteration ran on a Schema of two fields and yielded both, s being as built.
C7_Witness ==
  /\ s.id # 0
  /\ Len(s._fields) = 2
  /\ ret.op = "iter"
  /\ ret.out.val = s._fields

\* C8: Schema.parse of a Schema returns that very Schema (the same object, unchanged),
\* so parsing the result of a parse returns the same Schema again.
C8_ParseIdentity ==
  (ret.op = "parse" /\ ret.arg.kind = "Schema") =>
    /\ Returned(ret)
    /\ ret.out.kind = "Schema"
    /\ ret.out.val.id = ret.arg.val.id
    /\ ret.out.val = ret.arg.val

\* C8 witness: the Schema parsed from a text was parsed again and came back itself; it
\* is another object than s.
C8_Witness ==
  /\ ret.op = "parse"
  /\ ret.arg.kind = "Schema"
  /\ s.id # 0
  /\ ret.arg.val.id # s.id
  /\ ret.out.val.id = ret.arg.val.id

\* The integer a written length denotes.
WrittenLength(rec) == PyInt(IntOfText(rec["length"].text))

\* C9: in Schema.parse, a record that omits `length` yields a field of length 1 and a
\* record that gives it yields a field of exactly that length, record by record; a
\* record that omits `name` or `type` yields no field at all (parse raises).
C9_LengthDefault ==
  /\ (ParsedText(ret) /\ Returned(ret)) =>
       /\ Len(ret.out.val._fields) = Len(ret.arg.val)
       /\ \A i \in 1..Len(ret.arg.val) :
            ret.out.val._fields[i].length =
              IF "length" \in DOMAIN ret.arg.val[i] THEN WrittenLength(ret.arg.val[i]) ELSE PyInt(1)
  /\ (ParsedText(ret) /\ \E i \in 1..Len(ret.arg.val) : {"name", "type"} \ DOMAIN ret.arg.val[i] # {}) =>
       ret.out.status = "raise"

\* C9 witness: parse returned a Schema for a specification whose first record omits
\* `length` and whose second record gives the length 0.
C9_Witness ==
  /\ ParsedText(ret)
  /\ Returned(ret)
  /\ Len(ret.arg.val) = 2
  /\ "length" \notin DOMAIN ret.arg.val[1]
  /\ "length" \in DOMAIN ret.arg.val[2]
  /\ ret.arg.val[2]["length"].text = "0"
  /\ ret.out.val._fields[1].length = PyInt(1)
  /\ ret.out.val._fields[2].length = PyInt(0)

\* The call has one of the two shapes create(f1, ..., fn) and create([f1, ..., fn]).
AllFields(args) == \A i \in 1..Len(args) : args[i].kind = "field"

OneList(args) == Len(args) = 1 /\ args[1].kind = "list"

\* Every field handed to the call, inside a list or as an argument of its own.
Supplied(args) ==
  {args[i].field : i \in {j \in 1..Len(args) : args[j].kind = "field"}}
  \cup UNION {{args[i].items[k] : k \in 1..Len(args[i].items)} :
                i \in {j \in 1..Len(args) : args[j].kind = "list"}}

Held(x) == {x._fields[i] : i \in 1..Len(x._fields)}

\* What Schema(fields) gives: the fields as listed, and the name map built from them.
SameAsConstructor(r, fields) ==
  /\ r.out.status = Schema__init__(fields, 1).status
  /\ Returned(r) =>
       /\ r.out.val._fields = fields
       /\ r.out.val._field_map = Schema__init__(fields, 1).val._field_map

\* C10 as stated: create(f1, ..., fn) and create([f1, ..., fn]) give the Schema that
\* Schema([f1, ..., fn]) gives, and no argument supplied to create is dropped from the
\* resulting Schema.
C10_NoArgumentDropped ==
  (ret.op = "create" /\ Len(ret.arg) > 0) =>
    /\ AllFields(ret.arg) => SameAsConstructor(ret, ListOfArgs(ret.arg))
    /\ OneList(ret.arg) => SameAsConstructor(ret, ret.arg[1].items)
    /\ Returned(ret) => Supplied(ret.arg) \subseteq Held(ret.out.val)

\* C10 amended: create(f1, ..., fn) and create([f1, ..., fn]) give the Schema that
\* Schema([f1, ..., fn]) gives, and in these two shapes no argument is dropped; when the
\* first argument is a list and further arguments follow it, create gives the Schema of
\* that list alone and ignores the arguments after it.
C10_CreateNormalizes ==
  (ret.op = "create" /\ Len(ret.arg) > 0) =>
    /\ AllFields(ret.arg) => SameAsConstructor(ret, ListOfArgs(ret.arg))
    /\ ret.arg[1].kind = "list" => SameAsConstructor(ret, ret.arg[1].items)
    /\ (Returned(ret) /\ (AllFields(ret.arg) \/ OneList(ret.arg))) =>
         Supplied(ret.arg) \subseteq Held(ret.out.val)

\* C10 witness: create(f1, f2) with two different fields returned a Schema of both.
C10_Witness ==
  /\ ret.op = "create"
  /\ Len(ret.arg) = 2
  /\ AllFields(ret.arg)
  /\ ret.arg[1] # ret.arg[2]
  /\ Returned(ret)
  /\ ret.out.val._fields = <<ret.arg[1].field, ret.arg[2].field>>

====
